---- MODULE Spec2Model ----
(***************************************************************************)
(* A model of go-cfr2, a command-line client for Cloudflare R2.            *)
(*                                                                         *)
(*   main.go            main, the six command handlers, printUsage         *)
(*   config (part_000)  LoadConfig, ExitWithError                          *)
(*   r2/operations.go   ListObjects, DeleteObject, RenameObject,           *)
(*                      progressWriter, progressReader, DownloadObject,    *)
(*                      UploadObject, GeneratePresignedURLWithExpiry       *)
(*   r2 client          NewR2Client                                        *)
(*                                                                         *)
(* The process is one sequential program: pc is its position.  The object  *)
(* store, the local file system, the configuration file and the            *)
(* environment are the program's surroundings; their answers are inputs.   *)
(* Strings the program only compares and passes on (configuration values,  *)
(* bucket names) are TLA+ strings; strings it takes apart (object keys,    *)
(* paths) are sequences of one-character strings.                          *)
(***************************************************************************)
EXTENDS Integers, Sequences, FiniteSets, TLC

VARIABLES
    pc,              \* position of the process
    retTo,           \* where DeleteObject returns to (it has two callers)
    argv,            \* os.Args: the command and its flags
    out,             \* what was printed, in order: [fd, msg, ...]
    exitStatus,      \* -1 while running, else the status the process ended with
    cfgFs,           \* state of the configuration file on disk
    cfgFile,         \* the four values the configuration file holds
    cfgEnv,          \* the four CFR2_* environment variables
    cfg,             \* *R2Config returned by LoadConfig (Null for nil)
    cfgErr,          \* error returned by LoadConfig ("" for nil)
    client,          \* *s3.Client returned by NewR2Client (Null for nil)
    clientErr,       \* error returned by NewR2Client
    store,           \* the bucket: object key -> content
    calls,           \* the store calls issued so far, in order
    opArgs,          \* arguments of the r2 operation being run
    opErr,           \* error returned by the r2 operation ("" for nil)
    pages,           \* the listing the store serves, page by page
    pageIdx,         \* pages the paginator has fetched
    allObjects,      \* ListObjects' accumulator
    listResult,      \* the slice ListObjects returned
    dirs,            \* local paths that are existing directories
    files,           \* local files: path -> content
    finalOutputPath, \* handleDownloadCommand's resolved destination
    body,            \* bytes of the stream still to be copied
    xfer,            \* the progress wrapper of the transfer: [total, transferred]
    url,             \* the presigned URL returned
    store0,          \* the bucket as the process found it
    files0,          \* the local files as the process found them
    wrapper,         \* the progress wrapper callers share: its kind and total
    transferred,     \* the wrapper's transferred field
    mu,              \* the wrapper's mutex: its holder, "" when free
    caller,          \* each caller of Write/Read: position, n, register, ...
    innerSum,        \* sum of the n the inner stream returned, over all calls
    cleanSum         \* the same sum over the calls it returned no error to

progVars == <<wrapper, transferred, mu, caller, innerSum, cleanSum>>
\* What no step of the sequential process changes.
inputVars == <<argv, store0, files0, progVars>>
procVars == <<pc, retTo, out, exitStatus>>
cfgVars == <<cfgFs, cfgFile, cfgEnv, cfg, cfgErr>>
clientVars == <<client, clientErr>>
storeVars == <<store, calls, opArgs, opErr>>
listVars == <<pages, pageIdx, allObjects, listResult>>
localVars == <<dirs, files, finalOutputPath, body, xfer, url>>
vars == <<pc, retTo, argv, out, exitStatus, cfgFs, cfgFile, cfgEnv, cfg, cfgErr,
          client, clientErr, store, calls, opArgs, opErr, pages, pageIdx,
          allObjects, listResult, dirs, files, finalOutputPath, body, xfer, url,
          store0, files0, wrapper, transferred, mu, caller, innerSum, cleanSum>>

Null == [null |-> TRUE]

(***************************************************************************)
(* config.LoadConfig                                                       *)
(***************************************************************************)

\* The fields of R2Config, in the order LoadConfig validates them.
FieldOrder == <<"AccountID", "AccessKeyID", "SecretAccessKey", "DefaultBucket">>
Fields == {FieldOrder[i] : i \in 1..Len(FieldOrder)}

\* cfg := &R2Config{}: every field the zero string.
EmptyConfig == [f \in Fields |-> ""]

\* What the file system answers about the configuration file:
\*   absent      there is no such file; os.Stat fails
\*   noaccess    the file exists but os.Stat fails (a directory on the way
\*               to it denies search permission)
\*   unreadable  os.Stat succeeds, os.ReadFile fails
\*   malformed   the file is read, toml.Unmarshal fails
\*   ok          the file is read and parsed into cfgFile
FsStates == {"absent", "noaccess", "unreadable", "malformed", "ok"}

\* _, err := os.Stat(expandedPath); err == nil
StatOk(fs) == fs \in {"unreadable", "malformed", "ok"}

\* os.Getenv: the value of a set variable, "" for an unset one.
Getenv(v) == IF v.set THEN v.val ELSE ""

\* The merge the doc comment of LoadConfig describes: the file takes
\* precedence, the environment fills only what the file left empty.
OverrideWithEnv_FileFirst(c, env) ==
    [f \in Fields |-> IF c[f] # "" THEN c[f] ELSE Getenv(env[f])]

\* Step 2 of LoadConfig: a non-empty environment value replaces the field.
OverrideWithEnv(c, env) ==
    [f \in Fields |-> IF Getenv(env[f]) # "" THEN Getenv(env[f]) ELSE c[f]]

\* Step 3 of LoadConfig: the first field, in order, that is empty ("" if none).
RECURSIVE FirstEmptyFrom(_, _)
FirstEmptyFrom(c, i) ==
    IF i > Len(FieldOrder) THEN ""
    ELSE IF c[FieldOrder[i]] = "" THEN FieldOrder[i]
    ELSE FirstEmptyFrom(c, i + 1)

\* A validation that forgets the last field, DefaultBucket.
ValidateRequired_SkipsLast(c) ==
    IF FirstEmptyFrom(c, 1) = FieldOrder[Len(FieldOrder)] THEN ""
    ELSE FirstEmptyFrom(c, 1)

ValidateRequired(c) == FirstEmptyFrom(c, 1)

\* LoadConfig as a function of its surroundings: [cfg, err].
LoadConfigResult(fs, file, env) ==
    IF StatOk(fs) /\ fs = "unreadable" THEN [cfg |-> Null, err |-> "read"]
    ELSE IF StatOk(fs) /\ fs = "malformed" THEN [cfg |-> Null, err |-> "unmarshal"]
    ELSE LET loaded == IF StatOk(fs) THEN file ELSE EmptyConfig
             merged == OverrideWithEnv(loaded, env)
             missing == ValidateRequired(merged)
         IN IF missing # "" THEN [cfg |-> Null, err |-> missing]
            ELSE [cfg |-> merged, err |-> ""]

LoadConfig ==
    /\ pc = "LoadConfig"
    /\ LET r == LoadConfigResult(cfgFs, cfgFile, cfgEnv)
       IN /\ cfg' = r.cfg
          /\ cfgErr' = r.err
    /\ pc' = "main_cfg"
    /\ UNCHANGED <<retTo, inputVars, out, exitStatus, cfgFs, cfgFile, cfgEnv>>
    /\ UNCHANGED <<clientVars, storeVars, listVars, localVars>>

\* Values a configuration file can give a field, and an environment variable
\* can hold.
FileValues == {"", "f"}
EnvValues == {[set |-> FALSE, val |-> ""], [set |-> TRUE, val |-> ""],
              [set |-> TRUE, val |-> "e"]}

\* Every configuration file and environment LoadConfig can meet.  A file that
\* is not parsed gives no values.
ConfigInputs ==
    /\ cfgFs \in FsStates
    /\ cfgFile \in IF cfgFs = "ok" THEN [Fields -> FileValues] ELSE {EmptyConfig}
    /\ cfgEnv \in [Fields -> EnvValues]

(***************************************************************************)
(* Strings and paths: strings.ReplaceAll, filepath.Clean, filepath.Join,   *)
(* filepath.Base, as handleDownloadCommand uses them (Unix separators).    *)
(***************************************************************************)

Slash == <<"/">>
Dot == <<".">>

\* The index of the first old in s, 0 if there is none.
RECURSIVE IndexFrom(_, _, _)
IndexFrom(s, old, i) ==
    IF i > Len(s) THEN 0 ELSE IF s[i] = old THEN i ELSE IndexFrom(s, old, i + 1)

\* strings.Replace(s, old, new, 1): only the first old is replaced.
ReplaceAll_FirstOnly(s, old, new) ==
    [i \in 1..Len(s) |-> IF i = IndexFrom(s, old, 1) THEN new ELSE s[i]]

\* strings.ReplaceAll(s, old, new) for one-character old and new.
ReplaceAll(s, old, new) ==
    [i \in 1..Len(s) |-> IF s[i] = old THEN new ELSE s[i]]

\* filepath.Clean's ".." step: drop the last element of out, down to dotdot.
RECURSIVE BackTo(_, _, _)
BackTo(o, w, dotdot) ==
    IF w > dotdot /\ o[w + 1] # "/" THEN BackTo(o, w - 1, dotdot)
    ELSE SubSeq(o, 1, w)

\* The end (exclusive, counted from 0) of the path element starting at r.
RECURSIVE ElementEnd(_, _)
ElementEnd(path, r) ==
    IF r < Len(path) /\ path[r + 1] # "/" THEN ElementEnd(path, r + 1) ELSE r

\* filepath.Clean's loop: r is the next byte of path (counted from 0), o the
\* output buffer, dotdot the index in o where ".." must stop.
RECURSIVE CleanLoop(_, _, _, _, _)
CleanLoop(path, r, o, dotdot, rooted) ==
    LET n == Len(path) IN
    IF r >= n THEN o
    ELSE IF path[r + 1] = "/" THEN CleanLoop(path, r + 1, o, dotdot, rooted)
    ELSE IF path[r + 1] = "." /\ (r + 1 = n \/ path[r + 2] = "/")
         THEN CleanLoop(path, r + 1, o, dotdot, rooted)
    ELSE IF path[r + 1] = "." /\ path[r + 2] = "."
            /\ (r + 2 = n \/ path[r + 3] = "/")
         THEN IF Len(o) > dotdot
                 THEN CleanLoop(path, r + 2, BackTo(o, Len(o) - 1, dotdot),
                                dotdot, rooted)
              ELSE IF ~rooted
                 THEN LET o2 == (IF Len(o) > 0 THEN o \o Slash ELSE o)
                                \o <<".", ".">>
                      IN CleanLoop(path, r + 2, o2, Len(o2), rooted)
              ELSE CleanLoop(path, r + 2, o, dotdot, rooted)
    ELSE LET o1 == IF (rooted /\ Len(o) # 1) \/ (~rooted /\ Len(o) # 0)
                   THEN o \o Slash ELSE o
             e == ElementEnd(path, r)
         IN CleanLoop(path, e, o1 \o SubSeq(path, r + 1, e), dotdot, rooted)

\* filepath.Clean
Clean(path) ==
    IF path = <<>> THEN Dot
    ELSE LET rooted == path[1] = "/"
             res == CleanLoop(path, IF rooted THEN 1 ELSE 0,
                              IF rooted THEN Slash ELSE <<>>,
                              IF rooted THEN 1 ELSE 0, rooted)
         IN IF res = <<>> THEN Dot ELSE res

\* filepath.Join(a, b): the non-empty elements joined by "/" and cleaned.
Join(a, b) ==
    IF a # <<>> THEN Clean(a \o Slash \o b)
    ELSE IF b # <<>> THEN Clean(b)
    ELSE <<>>

RECURSIVE StripTrailingSlashes(_)
StripTrailingSlashes(path) ==
    IF Len(path) > 0 /\ path[Len(path)] = "/"
    THEN StripTrailingSlashes(SubSeq(path, 1, Len(path) - 1))
    ELSE path

\* The index (from 0) of the last "/" at or before i, -1 if there is none.
RECURSIVE LastSlash(_, _)
LastSlash(path, i) ==
    IF i >= 0 /\ path[i + 1] # "/" THEN LastSlash(path, i - 1) ELSE i

\* filepath.Base
Base(path) ==
    IF path = <<>> THEN Dot
    ELSE LET p == StripTrailingSlashes(path)
             i == LastSlash(p, Len(p) - 1)
             q == IF i >= 0 THEN SubSeq(p, i + 2, Len(p)) ELSE p
         IN IF q = <<>> THEN Slash ELSE q

\* handleDownloadCommand, lines 103-114: the destination of a download of
\* objectKey with -o outputPath, given the directories that exist.
ResolveOutputPath(objectKey, outputPath, existingDirs) ==
    IF outputPath = <<>>
    THEN Join(Dot, ReplaceAll(objectKey, "/", "_"))
    ELSE IF outputPath \in existingDirs
    THEN Join(outputPath, Base(objectKey))
    ELSE outputPath

(***************************************************************************)
(* The process: printing, exiting, calling the store.                      *)
(***************************************************************************)

Line(fd, marked, msg, info) ==
    [fd |-> fd, marked |-> marked, msg |-> msg, info |-> info]
Stdout(msg) == Line("stdout", FALSE, msg, <<>>)

\* printUsage
printUsage == <<Stdout("usage")>>

\* The process goes on to position p, having printed msgs and set the
\* arguments of the operation it calls.
Goto(p, msgs, args) ==
    /\ pc' = p
    /\ out' = out \o msgs
    /\ opArgs' = args
    /\ exitStatus' = exitStatus

\* os.Exit(status) after printing msgs: nothing of the program runs afterwards.
Exit(status, msgs) ==
    /\ pc' = "exit"
    /\ out' = out \o msgs
    /\ opArgs' = opArgs
    /\ exitStatus' = status

\* ExitWithError ending the process with status 0.
ExitWithError_Status0(msg) == Exit(0, <<Line("stderr", TRUE, msg, <<>>)>>)

\* utils.ExitWithError: the message on standard error behind the marker glyph,
\* then exit status 1.
ExitWithError(msg) == Exit(1, <<Line("stderr", TRUE, msg, <<>>)>>)

\* flagSet.Parse under flag.ExitOnError, when the arguments do not parse:
\* status 0 for -h/-help, status 2 for any other parse error.
ExitOnError ==
    IF argv.parse = "help"
    THEN Exit(0, <<Line("stderr", FALSE, "flag usage", <<>>)>>)
    ELSE Exit(2, <<Line("stderr", FALSE, "flag error", <<>>)>>)

NoArgs == [bucket |-> "", key |-> <<>>, oldKey |-> <<>>, newKey |-> <<>>,
           path |-> <<>>, expiry |-> 0]

\* bucketName := flags.String("b", cfg.DefaultBucket, ...)
BucketName == IF argv.b.given THEN argv.b.val ELSE cfg.DefaultBucket

\* One request sent to the store, and whether the store answered it with
\* success.
StoreCall(op, key, src, ok) == [op |-> op, key |-> key, src |-> src, ok |-> ok]

\* The bucket with key k holding content c, and with key k gone.
PutKey(s, k, c) == [x \in DOMAIN s \cup {k} |-> IF x = k THEN c ELSE s[x]]
RemoveKey(s, k) == [x \in DOMAIN s \ {k} |-> s[x]]

(***************************************************************************)
(* main                                                                    *)
(***************************************************************************)

\* main, lines 21-28: no command prints the usage and exits 1.
main ==
    /\ pc = "main"
    /\ IF ~argv.hasCmd
       THEN Exit(1, printUsage)
       ELSE Goto("LoadConfig", <<>>, opArgs)
    /\ UNCHANGED <<retTo, inputVars, cfgVars, clientVars, store, calls, opErr>>
    /\ UNCHANGED <<listVars, localVars>>

\* main, lines 29-33.
mainAfterLoadConfig ==
    /\ pc = "main_cfg"
    /\ IF cfgErr # ""
       THEN ExitWithError("Configuration error")
       ELSE Goto("NewR2Client", <<>>, opArgs)
    /\ UNCHANGED <<retTo, inputVars, cfgVars, clientVars, store, calls, opErr>>
    /\ UNCHANGED <<listVars, localVars>>

\* r2.NewR2Client: fails when the SDK's LoadDefaultConfig fails.
NewR2Client ==
    /\ pc = "NewR2Client"
    /\ \E sdkOk \in BOOLEAN :
          IF sdkOk
          THEN /\ client' = [endpoint |-> cfg.AccountID, region |-> "auto"]
               /\ clientErr' = ""
          ELSE /\ client' = Null
               /\ clientErr' = "failed to load AWS SDK config"
    /\ pc' = "main_client"
    /\ UNCHANGED <<retTo, inputVars, out, exitStatus, cfgVars, storeVars>>
    /\ UNCHANGED <<listVars, localVars>>

Commands == {"list", "download", "upload", "delete", "rename", "presign"}

\* A switch whose default falls into the list handler.
HandlerOf_DefaultLists(command) ==
    CASE command = "download" -> "handleDownloadCommand"
      [] command = "upload" -> "handleUploadCommand"
      [] command = "delete" -> "handleDeleteCommand"
      [] command = "rename" -> "handleRenameCommand"
      [] command = "presign" -> "handlePresignCommand"
      [] OTHER -> "handleListCommand"

\* The switch of main, lines 38-54: the handler of a command.
HandlerOf(command) ==
    CASE command = "list" -> "handleListCommand"
      [] command = "download" -> "handleDownloadCommand"
      [] command = "upload" -> "handleUploadCommand"
      [] command = "delete" -> "handleDeleteCommand"
      [] command = "rename" -> "handleRenameCommand"
      [] command = "presign" -> "handlePresignCommand"
      [] OTHER -> "default"

\* main entering the switch whether or not the client was built.
mainAfterNewR2Client_IgnoresError ==
    /\ pc = "main_client"
    /\ IF HandlerOf(argv.cmd) = "default"
       THEN Exit(1, printUsage)
       ELSE Goto(HandlerOf(argv.cmd), <<>>, opArgs)
    /\ UNCHANGED <<retTo, inputVars, cfgVars, clientVars, store, calls, opErr>>
    /\ UNCHANGED <<listVars, localVars>>

\* main, lines 34-54.
mainAfterNewR2Client ==
    /\ pc = "main_client"
    /\ IF clientErr # ""
       THEN ExitWithError("Failed to create R2 client")
       ELSE IF HandlerOf(argv.cmd) = "default"
       THEN Exit(1, printUsage)
       ELSE Goto(HandlerOf(argv.cmd), <<>>, opArgs)
    /\ UNCHANGED <<retTo, inputVars, cfgVars, clientVars, store, calls, opErr>>
    /\ UNCHANGED <<listVars, localVars>>

\* A handler returned to main, and main returned: exit status 0.
mainReturn ==
    /\ pc = "main_ret"
    /\ Exit(0, <<>>)
    /\ UNCHANGED <<retTo, inputVars, cfgVars, clientVars, store, calls, opErr>>
    /\ UNCHANGED <<listVars, localVars>>

(***************************************************************************)
(* list: handleListCommand and r2.ListObjects                              *)
(***************************************************************************)

\* handleListCommand, lines 58-67: parse, validate, call ListObjects.
handleListCommand ==
    /\ pc = "handleListCommand"
    /\ IF argv.parse # "ok" THEN ExitOnError
       ELSE IF BucketName = "" THEN ExitWithError("Bucket name not specified")
       ELSE Goto("ListObjects", <<>>, [NoArgs EXCEPT !.bucket = BucketName])
    /\ UNCHANGED <<retTo, inputVars, cfgVars, clientVars, store, calls, opErr>>
    /\ UNCHANGED <<listVars, localVars>>

\* paginator.HasMorePages(): the first page, or a page after one that came
\* with a continuation token.
HasMorePages(idx, pgs) == idx = 0 \/ idx < Len(pgs)

\* ListObjects returning what it gathered before the failure.
ListErrorResult_Partial(acc) == acc

\* What ListObjects returns when a page fetch fails, having gathered acc.
ListErrorResult(acc) == <<>>

\* ListObjects, lines 19-24.
ListObjects ==
    /\ pc = "ListObjects"
    /\ allObjects' = <<>>
    /\ pageIdx' = 0
    /\ pc' = "ListObjects_loop"
    /\ UNCHANGED <<retTo, inputVars, out, exitStatus, cfgVars, clientVars, storeVars>>
    /\ UNCHANGED <<pages, listResult, localVars>>

\* ListObjects, lines 26-32: one turn of the loop, one page fetch.
ListObjectsNextPage ==
    /\ pc = "ListObjects_loop"
    /\ HasMorePages(pageIdx, pages)
    /\ \E ok \in BOOLEAN :
          /\ calls' = Append(calls, StoreCall("ListObjectsV2", <<>>, <<>>, ok))
          /\ IF ok
             THEN /\ allObjects' = allObjects \o pages[pageIdx + 1]
                  /\ pageIdx' = pageIdx + 1
                  /\ UNCHANGED <<pc, listResult, opErr>>
             ELSE /\ listResult' = ListErrorResult(allObjects)
                  /\ opErr' = "failed to list objects"
                  /\ pc' = "handleListCommand_ret"
                  /\ UNCHANGED <<allObjects, pageIdx>>
    /\ UNCHANGED <<retTo, inputVars, out, exitStatus, cfgVars, clientVars, store, opArgs>>
    /\ UNCHANGED <<pages, localVars>>

\* ListObjects, line 34.
ListObjectsReturn ==
    /\ pc = "ListObjects_loop"
    /\ ~HasMorePages(pageIdx, pages)
    /\ listResult' = allObjects
    /\ opErr' = ""
    /\ pc' = "handleListCommand_ret"
    /\ UNCHANGED <<retTo, inputVars, out, exitStatus, cfgVars, clientVars, store, calls>>
    /\ UNCHANGED <<opArgs, pages, pageIdx, allObjects, localVars>>

\* handleListCommand, lines 77-83: one line per object, "N/A" for no size.
ObjectLines(objs) ==
    [i \in 1..Len(objs) |->
        Line("stdout", FALSE, "object",
             <<objs[i].Key, IF objs[i].Size = <<>> THEN "N/A" ELSE objs[i].Size[1]>>)]

\* handleListCommand, lines 68-84.
handleListCommandReturn ==
    /\ pc = "handleListCommand_ret"
    /\ IF opErr # "" THEN ExitWithError("Failed to list objects")
       ELSE IF Len(listResult) = 0
       THEN Goto("main_ret", <<Stdout("No objects found in the bucket.")>>, opArgs)
       ELSE Goto("main_ret", ObjectLines(listResult), opArgs)
    /\ UNCHANGED <<retTo, inputVars, cfgVars, clientVars, store, calls, opErr>>
    /\ UNCHANGED <<listVars, localVars>>

(***************************************************************************)
(* delete: handleDeleteCommand and r2.DeleteObject                         *)
(***************************************************************************)

\* handleDeleteCommand, lines 153-168.
handleDeleteCommand ==
    /\ pc = "handleDeleteCommand"
    /\ IF argv.parse # "ok" THEN ExitOnError /\ UNCHANGED retTo
       ELSE IF BucketName = ""
       THEN ExitWithError("Bucket name not specified") /\ UNCHANGED retTo
       ELSE IF argv.k = <<>>
       THEN ExitWithError("Object key not specified") /\ UNCHANGED retTo
       ELSE /\ Goto("DeleteObject", <<Stdout("Deleting")>>,
                    [NoArgs EXCEPT !.bucket = BucketName, !.key = argv.k])
            /\ retTo' = "handleDeleteCommand_ret"
    /\ UNCHANGED <<inputVars, cfgVars, clientVars, store, calls, opErr>>
    /\ UNCHANGED <<listVars, localVars>>

\* DeleteObject sending the request again when it failed.
DeleteObject_Retries ==
    /\ pc = "DeleteObject"
    /\ \E ok \in BOOLEAN :
          /\ calls' = Append(calls, StoreCall("DeleteObject", opArgs.key, <<>>, ok))
          /\ IF ok
             THEN /\ store' = RemoveKey(store, opArgs.key)
                  /\ opErr' = ""
                  /\ pc' = retTo
             ELSE /\ store' = store
                  /\ opErr' = "failed to delete object"
                  /\ pc' = IF Len(calls) < 2 THEN pc ELSE retTo
    /\ UNCHANGED <<retTo, inputVars, out, exitStatus, cfgVars, clientVars, opArgs>>
    /\ UNCHANGED <<listVars, localVars>>

\* r2.DeleteObject: one DeleteObject request; deleting a key the bucket does
\* not hold succeeds.  A request that fails leaves the bucket as it was.
DeleteObject ==
    /\ pc = "DeleteObject"
    /\ \E ok \in BOOLEAN :
          /\ calls' = Append(calls, StoreCall("DeleteObject", opArgs.key, <<>>, ok))
          /\ IF ok
             THEN /\ store' = RemoveKey(store, opArgs.key)
                  /\ opErr' = ""
             ELSE /\ store' = store
                  /\ opErr' = "failed to delete object"
    /\ pc' = retTo
    /\ UNCHANGED <<retTo, inputVars, out, exitStatus, cfgVars, clientVars, opArgs>>
    /\ UNCHANGED <<listVars, localVars>>

\* handleDeleteCommand, lines 169-173.
handleDeleteCommandReturn ==
    /\ pc = "handleDeleteCommand_ret"
    /\ IF opErr # "" THEN ExitWithError("Failed to delete object")
       ELSE Goto("main_ret", <<Stdout("Successfully deleted")>>, opArgs)
    /\ UNCHANGED <<retTo, inputVars, cfgVars, clientVars, store, calls, opErr>>
    /\ UNCHANGED <<listVars, localVars>>

(***************************************************************************)
(* rename: handleRenameCommand and r2.RenameObject                         *)
(***************************************************************************)

\* handleRenameCommand, lines 176-196.
handleRenameCommand ==
    /\ pc = "handleRenameCommand"
    /\ IF argv.parse # "ok" THEN ExitOnError
       ELSE IF BucketName = "" THEN ExitWithError("Bucket name not specified")
       ELSE IF argv.o = <<>> THEN ExitWithError("Old object key not specified")
       ELSE IF argv.n = <<>> THEN ExitWithError("New object key not specified")
       ELSE Goto("RenameObject", <<Stdout("Renaming")>>,
                 [NoArgs EXCEPT !.bucket = BucketName, !.oldKey = argv.o,
                                !.newKey = argv.n])
    /\ UNCHANGED <<retTo, inputVars, cfgVars, clientVars, store, calls, opErr>>
    /\ UNCHANGED <<listVars, localVars>>

\* RenameObject going on to the delete whatever the copy answered.
RenameAfterCopy_AlwaysDeletes(copyOk) == "DeleteObject"

\* RenameObject, lines 62-67: where it goes after the copy came back.
RenameAfterCopy(copyOk) == IF copyOk THEN "DeleteObject" ELSE "handleRenameCommand_ret"

\* RenameObject dropping the error of the delete.
RenameDeleteError_Swallowed(deleteErr) == ""

\* RenameObject, lines 68-73: its error, given the error of the delete.
RenameDeleteError(deleteErr) ==
    IF deleteErr # ""
    THEN "copy successful but failed to delete original object"
    ELSE ""

\* RenameObject, lines 55-67: the server-side copy of oldKey to newKey, then
\* the call of DeleteObject on oldKey.  The store copies only an object it
\* holds; a copy that fails leaves the bucket as it was.
RenameObjectCopy ==
    /\ pc = "RenameObject"
    /\ \E ok \in BOOLEAN :
          /\ calls' = Append(calls, StoreCall("CopyObject", opArgs.newKey, opArgs.oldKey, ok))
          /\ ok => opArgs.oldKey \in DOMAIN store
          /\ IF ok
             THEN /\ store' = PutKey(store, opArgs.newKey, store[opArgs.oldKey])
                  /\ opErr' = ""
             ELSE /\ store' = store
                  /\ opErr' = "failed to copy object"
          /\ pc' = RenameAfterCopy(ok)
    /\ opArgs' = [opArgs EXCEPT !.key = opArgs.oldKey]
    /\ retTo' = "RenameObject_del"
    /\ UNCHANGED <<inputVars, out, exitStatus, cfgVars, clientVars>>
    /\ UNCHANGED <<listVars, localVars>>

\* RenameObject, lines 68-73.
RenameObjectReturn ==
    /\ pc = "RenameObject_del"
    /\ opErr' = RenameDeleteError(opErr)
    /\ pc' = "handleRenameCommand_ret"
    /\ UNCHANGED <<retTo, inputVars, out, exitStatus, cfgVars, clientVars, store, calls>>
    /\ UNCHANGED <<opArgs, listVars, localVars>>

\* handleRenameCommand, lines 197-201.
handleRenameCommandReturn ==
    /\ pc = "handleRenameCommand_ret"
    /\ IF opErr # "" THEN ExitWithError("Failed to rename object")
       ELSE Goto("main_ret", <<Stdout("Successfully renamed")>>, opArgs)
    /\ UNCHANGED <<retTo, inputVars, cfgVars, clientVars, store, calls, opErr>>
    /\ UNCHANGED <<listVars, localVars>>

(***************************************************************************)
(* download: handleDownloadCommand and r2.DownloadObject                   *)
(***************************************************************************)

\* handleDownloadCommand, lines 87-117.
handleDownloadCommand ==
    /\ pc = "handleDownloadCommand"
    /\ IF argv.parse # "ok" THEN ExitOnError /\ UNCHANGED finalOutputPath
       ELSE IF BucketName = ""
       THEN ExitWithError("Bucket name not specified") /\ UNCHANGED finalOutputPath
       ELSE IF argv.k = <<>>
       THEN ExitWithError("Object key not specified") /\ UNCHANGED finalOutputPath
       ELSE LET path == ResolveOutputPath(argv.k, argv.o, dirs)
            IN /\ finalOutputPath' = path
               /\ Goto("DownloadObject", <<Stdout("Downloading")>>,
                       [NoArgs EXCEPT !.bucket = BucketName, !.key = argv.k,
                                      !.path = path])
    /\ UNCHANGED <<retTo, inputVars, cfgVars, clientVars, store, calls, opErr>>
    /\ UNCHANGED <<listVars, dirs, files, body, xfer, url>>

\* The file a path names: paths that clean to the same path name one file.
FileOf(path) == Clean(path)

\* The most bytes one Read of a copy loop returns.
ChunkSize == 2

Min(a, b) == IF a < b THEN a ELSE b

\* progressWriter.Write / progressReader.Read with no error from the inner
\* stream, called by the one goroutine that copies: transferred += n.
Count(w, n) == [w EXCEPT !.transferred = w.transferred + n]

Progress(w) == Line("stdout", FALSE, "progress", <<w.transferred, w.total>>)

\* DownloadObject, lines 128-137: GetObject.  The store serves only an object
\* it holds.
DownloadObjectGet ==
    /\ pc = "DownloadObject"
    /\ \E ok \in BOOLEAN :
          /\ calls' = Append(calls, StoreCall("GetObject", opArgs.key, <<>>, ok))
          /\ ok => opArgs.key \in DOMAIN store
          /\ IF ok
             THEN /\ body' = store[opArgs.key]
                  /\ opErr' = ""
                  /\ pc' = "DownloadObject_create"
             ELSE /\ body' = body
                  /\ opErr' = "failed to get object"
                  /\ pc' = "handleDownloadCommand_ret"
    /\ UNCHANGED <<retTo, inputVars, out, exitStatus, cfgVars, clientVars, store>>
    /\ UNCHANGED <<opArgs, listVars, dirs, files, finalOutputPath, xfer, url>>

\* DownloadObject, lines 139-156: os.Create truncates the destination; it
\* fails on a directory.  The response may carry no ContentLength.
DownloadObjectCreate ==
    /\ pc = "DownloadObject_create"
    /\ \E ok \in BOOLEAN, known \in BOOLEAN :
          /\ ok => FileOf(opArgs.path) \notin {FileOf(d) : d \in dirs}
          /\ IF ok
             THEN /\ files' = PutKey(files, FileOf(opArgs.path), <<>>)
                  /\ xfer' = [total |-> IF known THEN Len(body) ELSE 0,
                              transferred |-> 0]
                  /\ out' = IF known THEN out
                            ELSE Append(out, Stdout("Warning: ContentLength not available"))
                  /\ opErr' = ""
                  /\ pc' = "DownloadObject_copy"
             ELSE /\ opErr' = "failed to create local file"
                  /\ pc' = "handleDownloadCommand_ret"
                  /\ UNCHANGED <<files, xfer, out>>
    /\ UNCHANGED <<retTo, inputVars, exitStatus, cfgVars, clientVars, store, calls>>
    /\ UNCHANGED <<opArgs, listVars, dirs, finalOutputPath, body, url>>

\* A failure path that removes the destination file.
KeepPartial_Removed(fs, path, written) == RemoveKey(fs, path)

\* DownloadObject, lines 158-161: the file keeps what is written to it, the
\* bytes of a short last write included; when io.Copy fails the function
\* returns the error and the deferred file.Close() neither removes nor
\* restores the file.
KeepPartial(fs, path, written) == [fs EXCEPT ![path] = @ \o written]

\* DownloadObject, line 158: one turn of io.Copy.  Read returns n bytes of
\* the body, with no error or with an error other than io.EOF; such an error
\* can come with the last bytes or after them, when nothing is left to read.
\* The bytes read are written to the file through the progressWriter before
\* the Read error is looked at; the Write may fail after w < n bytes, and then
\* the progressWriter counts and prints nothing.
DownloadObjectCopy ==
    /\ pc = "DownloadObject_copy"
    /\ \E n \in 0..Min(ChunkSize, Len(body)), r \in {"ok", "read error", "write error"} :
          /\ r # "read error" => n >= 1
          /\ IF r = "write error"
             THEN /\ \E w \in 0..(n - 1) :
                        files' = KeepPartial(files, FileOf(opArgs.path), SubSeq(body, 1, w))
                  /\ UNCHANGED <<body, xfer, out>>
             ELSE /\ files' = KeepPartial(files, FileOf(opArgs.path), SubSeq(body, 1, n))
                  /\ body' = SubSeq(body, n + 1, Len(body))
                  /\ xfer' = Count(xfer, n)
                  /\ out' = IF n >= 1 THEN Append(out, Progress(Count(xfer, n))) ELSE out
          /\ IF r = "ok"
             THEN UNCHANGED <<pc, opErr>>
             ELSE /\ opErr' = "failed to write object content to file"
                  /\ pc' = "handleDownloadCommand_ret"
    /\ UNCHANGED <<retTo, inputVars, exitStatus, cfgVars, clientVars, store, calls>>
    /\ UNCHANGED <<opArgs, listVars, dirs, finalOutputPath, url>>

\* DownloadObject, lines 159-164: the body is drained and Read returns io.EOF.
DownloadObjectReturn ==
    /\ pc = "DownloadObject_copy"
    /\ body = <<>>
    /\ out' = Append(out, Stdout("newline"))
    /\ opErr' = ""
    /\ pc' = "handleDownloadCommand_ret"
    /\ UNCHANGED <<retTo, inputVars, exitStatus, cfgVars, clientVars, store, calls>>
    /\ UNCHANGED <<opArgs, listVars, localVars>>

\* handleDownloadCommand, lines 118-122.
handleDownloadCommandReturn ==
    /\ pc = "handleDownloadCommand_ret"
    /\ IF opErr # "" THEN ExitWithError("Failed to download object")
       ELSE Goto("main_ret", <<Stdout("Successfully downloaded")>>, opArgs)
    /\ UNCHANGED <<retTo, inputVars, cfgVars, clientVars, store, calls, opErr>>
    /\ UNCHANGED <<listVars, localVars>>

(***************************************************************************)
(* upload: handleUploadCommand and r2.UploadObject                         *)
(***************************************************************************)

\* handleUploadCommand, lines 125-145.
handleUploadCommand ==
    /\ pc = "handleUploadCommand"
    /\ IF argv.parse # "ok" THEN ExitOnError
       ELSE IF BucketName = "" THEN ExitWithError("Bucket name not specified")
       ELSE IF argv.f = <<>> THEN ExitWithError("File path not specified")
       ELSE IF argv.k = <<>> THEN ExitWithError("Object key not specified")
       ELSE Goto("UploadObject", <<Stdout("Uploading")>>,
                 [NoArgs EXCEPT !.bucket = BucketName, !.key = argv.k,
                                !.path = argv.f])
    /\ UNCHANGED <<retTo, inputVars, cfgVars, clientVars, store, calls, opErr>>
    /\ UNCHANGED <<listVars, localVars>>

\* UploadObject, lines 169-184: os.Open and file.Stat; a file that does not
\* exist cannot be opened.
UploadObjectOpen ==
    /\ pc = "UploadObject"
    /\ \E r \in {"ok", "open error", "stat error"} :
          /\ r # "open error" => FileOf(opArgs.path) \in DOMAIN files
          /\ IF r = "ok"
             THEN /\ body' = files[FileOf(opArgs.path)]
                  /\ xfer' = [total |-> Len(files[FileOf(opArgs.path)]), transferred |-> 0]
                  /\ opErr' = ""
                  /\ pc' = "UploadObject_read"
             ELSE /\ opErr' = IF r = "open error" THEN "failed to open local file"
                              ELSE "failed to get file info"
                  /\ pc' = "handleUploadCommand_ret"
                  /\ UNCHANGED <<body, xfer>>
    /\ UNCHANGED <<retTo, inputVars, out, exitStatus, cfgVars, clientVars, store>>
    /\ UNCHANGED <<calls, opArgs, listVars, dirs, files, finalOutputPath, url>>

\* UploadObject, line 187: the uploader reads the body through the
\* progressReader until a Read returns an error.  A Read returns n >= 1 bytes
\* with no error, or fails with an error other than io.EOF, which can happen
\* after the last byte too; the progressReader counts and prints nothing for a
\* failed Read, and the upload ends before any request is sent.  (A file below
\* the uploader's part size: one PutObject.)
UploadObjectRead ==
    /\ pc = "UploadObject_read"
    /\ \E n \in 0..Min(ChunkSize, Len(body)), ok \in BOOLEAN :
          /\ ok => n >= 1
          /\ IF ok
             THEN /\ body' = SubSeq(body, n + 1, Len(body))
                  /\ xfer' = Count(xfer, n)
                  /\ out' = Append(out, Progress(Count(xfer, n)))
                  /\ UNCHANGED <<pc, opErr>>
             ELSE /\ opErr' = "failed to upload object"
                  /\ pc' = "handleUploadCommand_ret"
                  /\ UNCHANGED <<body, xfer, out>>
    /\ UNCHANGED <<retTo, inputVars, exitStatus, cfgVars, clientVars, store, calls>>
    /\ UNCHANGED <<opArgs, listVars, dirs, files, finalOutputPath, url>>

\* UploadObject, lines 187-197: the body is read to its end and Read returns
\* io.EOF; PutObject.
UploadObjectPut ==
    /\ pc = "UploadObject_read"
    /\ body = <<>>
    /\ \E ok \in BOOLEAN :
          /\ calls' = Append(calls, StoreCall("PutObject", opArgs.key, <<>>, ok))
          /\ IF ok
             THEN /\ store' = PutKey(store, opArgs.key, files[FileOf(opArgs.path)])
                  /\ out' = Append(out, Stdout("newline"))
                  /\ opErr' = ""
             ELSE /\ opErr' = "failed to upload object"
                  /\ UNCHANGED <<store, out>>
    /\ pc' = "handleUploadCommand_ret"
    /\ UNCHANGED <<retTo, inputVars, exitStatus, cfgVars, clientVars>>
    /\ UNCHANGED <<opArgs, listVars, localVars>>

\* handleUploadCommand, lines 146-150.
handleUploadCommandReturn ==
    /\ pc = "handleUploadCommand_ret"
    /\ IF opErr # "" THEN ExitWithError("Failed to upload file")
       ELSE Goto("main_ret", <<Stdout("Successfully uploaded")>>, opArgs)
    /\ UNCHANGED <<retTo, inputVars, cfgVars, clientVars, store, calls, opErr>>
    /\ UNCHANGED <<listVars, localVars>>

(***************************************************************************)
(* presign: handlePresignCommand and r2.GeneratePresignedURLWithExpiry     *)
(***************************************************************************)

\* The default of -e, in hours.
DefaultExpiryHours == 24

\* handlePresignCommand, lines 244-261.
handlePresignCommand ==
    /\ pc = "handlePresignCommand"
    /\ IF argv.parse # "ok" THEN ExitOnError
       ELSE IF BucketName = "" THEN ExitWithError("Bucket name not specified")
       ELSE IF argv.k = <<>> THEN ExitWithError("Object key not specified")
       ELSE Goto("GeneratePresignedURLWithExpiry", <<Stdout("Generating presigned URL")>>,
                 [NoArgs EXCEPT !.bucket = BucketName, !.key = argv.k,
                                !.expiry = IF argv.e.given THEN argv.e.val
                                           ELSE DefaultExpiryHours])
    /\ UNCHANGED <<retTo, inputVars, cfgVars, clientVars, store, calls, opErr>>
    /\ UNCHANGED <<listVars, localVars>>

\* GeneratePresignedURLWithExpiry: one PresignGetObject call of the SDK.
GeneratePresignedURLWithExpiry ==
    /\ pc = "GeneratePresignedURLWithExpiry"
    /\ \E ok \in BOOLEAN :
          /\ calls' = Append(calls, StoreCall("PresignGetObject", opArgs.key, <<>>, ok))
          /\ IF ok
             THEN /\ url' = [bucket |-> opArgs.bucket, key |-> opArgs.key,
                             expiresHours |-> opArgs.expiry]
                  /\ opErr' = ""
             ELSE /\ url' = Null
                  /\ opErr' = "failed to generate presigned URL"
    /\ pc' = "handlePresignCommand_ret"
    /\ UNCHANGED <<retTo, inputVars, out, exitStatus, cfgVars, clientVars, store>>
    /\ UNCHANGED <<opArgs, listVars, dirs, files, finalOutputPath, body, xfer>>

\* handlePresignCommand, lines 262-266.
handlePresignCommandReturn ==
    /\ pc = "handlePresignCommand_ret"
    /\ IF opErr # "" THEN ExitWithError("Failed to generate presigned URL")
       ELSE Goto("main_ret", <<Line("stdout", FALSE, "Presigned URL", url)>>, opArgs)
    /\ UNCHANGED <<retTo, inputVars, cfgVars, clientVars, store, calls, opErr>>
    /\ UNCHANGED <<listVars, localVars>>

(***************************************************************************)
(* progressWriter.Write and progressReader.Read, called concurrently.      *)
(* The two methods differ only in the factor of the percentage they print. *)
(***************************************************************************)

Callers == {"g1", "g2"}

\* Calls each caller makes.
MaxCalls == 1

\* The byte counts one call of the inner stream can return.
ByteCounts == 0..2

\* A lock that never blocks: the increment is not protected.
MutexFree_NoExclusion(m) == TRUE

\* Whether mu.Lock() can be taken: the mutex is free.
MutexFree(m) == m = ""

\* The factor of the percentage: 100 in Write (line 95), 10 in Read (line 120).
PercentFactor(kind) == IF kind = "progressWriter" THEN 100 ELSE 10

Sequential == UNCHANGED <<pc, retTo, argv, out, exitStatus, cfgVars, clientVars,
                          storeVars, listVars, localVars, store0, files0>>

\* Lines 85-88 / 110-113: the call of the inner stream.  It returns n and
\* possibly an error; with an error the method returns at once.
InnerCall(c) ==
    /\ caller[c].pc = "call"
    /\ caller[c].calls < MaxCalls
    /\ \E n \in ByteCounts, failed \in BOOLEAN :
          /\ innerSum' = innerSum + n
          /\ IF failed
             THEN /\ caller' = [caller EXCEPT ![c].calls = @ + 1]
                  /\ UNCHANGED cleanSum
             ELSE /\ caller' = [caller EXCEPT ![c].pc = "lock", ![c].n = n]
                  /\ cleanSum' = cleanSum + n
    /\ UNCHANGED <<wrapper, transferred, mu>>
    /\ Sequential

\* Line 90 / 115: mu.Lock()
Lock(c) ==
    /\ caller[c].pc = "lock"
    /\ MutexFree(mu)
    /\ mu' = c
    /\ caller' = [caller EXCEPT ![c].pc = "load"]
    /\ UNCHANGED <<wrapper, transferred, innerSum, cleanSum>>
    /\ Sequential

\* Line 91 / 116, transferred += int64(n): the read of the field.
AddLoad(c) ==
    /\ caller[c].pc = "load"
    /\ caller' = [caller EXCEPT ![c].pc = "store", ![c].reg = transferred]
    /\ UNCHANGED <<wrapper, transferred, mu, innerSum, cleanSum>>
    /\ Sequential

\* Line 91 / 116, transferred += int64(n): the write of the field.  Callers
\* that are past their own write and have yet to print may see this value.
AddStore(c) ==
    /\ caller[c].pc = "store"
    /\ LET v == caller[c].reg + caller[c].n IN
       /\ transferred' = v
       /\ caller' = [d \in Callers |->
                       IF d = c THEN [caller[d] EXCEPT !.pc = "unlock", !.sees = {v}]
                       ELSE IF caller[d].pc \in {"unlock", "report"}
                       THEN [caller[d] EXCEPT !.sees = @ \cup {v}]
                       ELSE caller[d]]
    /\ UNCHANGED <<wrapper, mu, innerSum, cleanSum>>
    /\ Sequential

\* Line 92 / 117: mu.Unlock()
Unlock(c) ==
    /\ caller[c].pc = "unlock"
    /\ mu' = ""
    /\ caller' = [caller EXCEPT ![c].pc = "report"]
    /\ UNCHANGED <<wrapper, transferred, innerSum, cleanSum>>
    /\ Sequential

\* Lines 95-98 / 120-123: the percentage and the progress line.  Both read
\* transferred without the lock, racing with the writes of other callers:
\* each read sees the caller's own write or a later one.  The percentage is
\* kept as the fraction <<numerator, denominator>>.
Report(c) ==
    /\ caller[c].pc = "report"
    /\ \E v95 \in caller[c].sees, v96 \in caller[c].sees :
          caller' = [caller EXCEPT
                        ![c].pc = "call",
                        ![c].calls = @ + 1,
                        ![c].sees = {},
                        ![c].shown = [transferred |-> v96,
                                      percentage |-> <<v95 * PercentFactor(wrapper.kind),
                                                       wrapper.total>>]]
    /\ UNCHANGED <<wrapper, transferred, mu, innerSum, cleanSum>>
    /\ Sequential

NoneShown == [transferred |-> 0, percentage |-> <<0, 0>>]
IdleCaller == [pc |-> "call", calls |-> 0, n |-> 0, reg |-> 0, sees |-> {},
               shown |-> NoneShown]

\* No caller is inside Write/Read.
InitNoCallers ==
    /\ wrapper = [kind |-> "progressWriter", total |-> 0]
    /\ transferred = 0
    /\ mu = ""
    /\ caller = [c \in Callers |-> [IdleCaller EXCEPT !.calls = MaxCalls]]
    /\ innerSum = 0
    /\ cleanSum = 0

(***************************************************************************)
(* The surroundings the process can start in.                              *)
(***************************************************************************)

K1 == <<"a">>
K2 == <<"d", "/", "a">>
K3 == <<"n">>
ContentA == <<"x">>
ContentB == <<"y", "z">>
Contents == {ContentA, ContentB}

\* Every bucket over the keys ks.
Stores(ks) == UNION {[d -> Contents] : d \in SUBSET ks}

\* An entry of a listing: types.Object with its Key and its Size (a pointer:
\* <<>> for nil).
ObjectOf(s, k) == [Key |-> k, Size |-> <<Len(s[k])>>]

\* The most keys the store puts on one page of a listing.
StorePageSize == 1

\* The keys of a bucket in the store's listing order.
KeyOrder == <<K1, K2, K3>>
ListingOf(s) ==
    LET ks == SelectSeq(KeyOrder, LAMBDA k : k \in DOMAIN s)
    IN [i \in 1..Len(ks) |-> ObjectOf(s, ks[i])]

\* A listing cut into pages; an empty bucket is served as one empty page.
RECURSIVE PagesOf(_)
PagesOf(listing) ==
    IF Len(listing) <= StorePageSize THEN <<listing>>
    ELSE <<SubSeq(listing, 1, StorePageSize)>>
         \o PagesOf(SubSeq(listing, StorePageSize + 1, Len(listing)))

NotGiven == [given |-> FALSE, val |-> ""]
Given(v) == [given |-> TRUE, val |-> v]
NoExpiry == [given |-> FALSE, val |-> 0]

\* os.Args: whether a command was given, the command, whether its flags
\* parse, and the flags' values (<<>> for a string flag not given).
Args(cmd, parse, b, k, o, f, n, e) ==
    [hasCmd |-> TRUE, cmd |-> cmd, parse |-> parse, b |-> b, k |-> k, o |-> o,
     f |-> f, n |-> n, e |-> e]
NoCommand == [Args("", "ok", NotGiven, <<>>, <<>>, <<>>, <<>>, NoExpiry)
                 EXCEPT !.hasCmd = FALSE]

BucketFlags == {NotGiven, Given(""), Given("bk")}
KeyFlags == {<<>>, K1, K2}
OutFlags == {<<>>, <<"o">>}
LocalFile == <<"l">>
FileFlags == {<<>>, LocalFile}
ExpiryFlags == {NoExpiry, [given |-> TRUE, val |-> 1]}

\* The argument vectors of one command whose flags parse.
ArgsOf(cmd) ==
    CASE cmd = "list" ->
           {Args(cmd, "ok", b, <<>>, <<>>, <<>>, <<>>, NoExpiry) : b \in BucketFlags}
      [] cmd = "download" ->
           {Args(cmd, "ok", x[1], x[2], x[3], <<>>, <<>>, NoExpiry) :
               x \in BucketFlags \X KeyFlags \X OutFlags}
      [] cmd = "upload" ->
           {Args(cmd, "ok", x[1], x[2], <<>>, x[3], <<>>, NoExpiry) :
               x \in BucketFlags \X KeyFlags \X FileFlags}
      [] cmd = "delete" ->
           {Args(cmd, "ok", x[1], x[2], <<>>, <<>>, <<>>, NoExpiry) :
               x \in BucketFlags \X KeyFlags}
      [] cmd = "rename" ->
           {Args(cmd, "ok", x[1], <<>>, x[2], <<>>, x[3], NoExpiry) :
               x \in BucketFlags \X KeyFlags \X KeyFlags}
      [] cmd = "presign" ->
           {Args(cmd, "ok", x[1], x[2], <<>>, <<>>, <<>>, x[3]) :
               x \in BucketFlags \X KeyFlags \X ExpiryFlags}

\* Every argument vector: no command, an unknown command, and each command
\* with flags that parse, that do not, or that ask for help.
ArgVectors ==
    {NoCommand}
    \cup {Args(c, "ok", NotGiven, <<>>, <<>>, <<>>, <<>>, NoExpiry) : c \in {"", "bogus"}}
    \cup UNION {ArgsOf(c) : c \in Commands}
    \cup {Args(c, p, NotGiven, <<>>, <<>>, <<>>, <<>>, NoExpiry) :
             c \in Commands, p \in {"bad", "help"}}

Unset == [set |-> FALSE, val |-> ""]
NoEnv == [f \in Fields |-> Unset]
FullFile == [f \in Fields |-> "f"]
FullEnv == [f \in Fields |-> [set |-> TRUE, val |-> "e"]]

\* The configurations main is run with: a complete file, nothing at all, and
\* no file but a complete environment.
MainConfigs ==
    {[fs |-> "ok", file |-> FullFile, env |-> NoEnv],
     [fs |-> "absent", file |-> EmptyConfig, env |-> NoEnv],
     [fs |-> "absent", file |-> EmptyConfig, env |-> FullEnv]}

InitProc(p, a) ==
    /\ pc = p
    /\ retTo = ""
    /\ argv = a
    /\ out = <<>>
    /\ exitStatus = -1

InitStore(s, args) ==
    /\ store = s
    /\ store0 = s
    /\ calls = <<>>
    /\ opArgs = args
    /\ opErr = ""

InitList(pgs) ==
    /\ pages = pgs
    /\ pageIdx = 0
    /\ allObjects = <<>>
    /\ listResult = <<>>

InitLocal(d, f) ==
    /\ dirs = d
    /\ files = f
    /\ files0 = f
    /\ finalOutputPath = <<>>
    /\ body = <<>>
    /\ xfer = [total |-> 0, transferred |-> 0]
    /\ url = Null

\* The process before LoadConfig ran.
InitNoConfig(c) ==
    /\ cfgFs = c.fs
    /\ cfgFile = c.file
    /\ cfgEnv = c.env
    /\ cfg = Null
    /\ cfgErr = ""
    /\ client = Null
    /\ clientErr = ""

\* The process after LoadConfig and NewR2Client succeeded on a complete file.
InitConfigured ==
    /\ cfgFs = "ok"
    /\ cfgFile = FullFile
    /\ cfgEnv = NoEnv
    /\ cfg = FullFile
    /\ cfgErr = ""
    /\ client = [endpoint |-> FullFile.AccountID, region |-> "auto"]
    /\ clientErr = ""

\* The directories and files a command can find: for a download, whether -o
\* names a directory and whether the destination already holds a file; for an
\* upload, whether the file to upload is there.
\* The root is always a directory.
LocalDirs(a) ==
    IF a.cmd = "download" /\ a.o # <<>>
    THEN IF Clean(a.o) = Slash THEN {{a.o}} ELSE {{}, {a.o}}
    ELSE {{}}
LocalFiles(a, d) ==
    IF a.cmd = "download" /\ a.k # <<>>
    THEN {<<>>, PutKey(<<>>, FileOf(ResolveOutputPath(a.k, a.o, d)), ContentB)}
    ELSE IF a.cmd = "upload" /\ a.f # <<>>
    THEN {<<>>, PutKey(<<>>, FileOf(a.f), ContentA)}
    ELSE {<<>>}

(***************************************************************************)
(* Spec: one run of the program, from main.                                *)
(***************************************************************************)

Init ==
    /\ \E a \in ArgVectors : \E d \in LocalDirs(a) : \E f \in LocalFiles(a, d) :
          /\ InitProc("main", a)
          /\ InitLocal(d, f)
    /\ \E c \in MainConfigs : InitNoConfig(c)
    /\ \E s \in Stores({K1, K2}) :
          /\ InitStore(s, NoArgs)
          /\ InitList(PagesOf(ListingOf(s)))
    /\ InitNoCallers

Next ==
    \/ main
    \/ LoadConfig
    \/ mainAfterLoadConfig
    \/ NewR2Client
    \/ mainAfterNewR2Client
    \/ mainReturn
    \/ handleListCommand
    \/ ListObjects
    \/ ListObjectsNextPage
    \/ ListObjectsReturn
    \/ handleListCommandReturn
    \/ handleDeleteCommand
    \/ DeleteObject
    \/ handleDeleteCommandReturn
    \/ handleRenameCommand
    \/ RenameObjectCopy
    \/ RenameObjectReturn
    \/ handleRenameCommandReturn
    \/ handleDownloadCommand
    \/ DownloadObjectGet
    \/ DownloadObjectCreate
    \/ DownloadObjectCopy
    \/ DownloadObjectReturn
    \/ handleDownloadCommandReturn
    \/ handleUploadCommand
    \/ UploadObjectOpen
    \/ UploadObjectRead
    \/ UploadObjectPut
    \/ handleUploadCommandReturn
    \/ handlePresignCommand
    \/ GeneratePresignedURLWithExpiry
    \/ handlePresignCommandReturn

Spec == Init /\ [][Next]_vars

(***************************************************************************)
(* SpecConfig: LoadConfig on every configuration file and environment.     *)
(***************************************************************************)

InitConfig ==
    /\ InitProc("LoadConfig", Args("list", "ok", NotGiven, <<>>, <<>>, <<>>, <<>>, NoExpiry))
    /\ ConfigInputs
    /\ cfg = Null
    /\ cfgErr = ""
    /\ client = Null
    /\ clientErr = ""
    /\ InitStore(<<>>, NoArgs)
    /\ InitList(<<<<>>>>)
    /\ InitLocal({}, <<>>)
    /\ InitNoCallers

NextConfig == LoadConfig \/ mainAfterLoadConfig

SpecConfig == InitConfig /\ [][NextConfig]_vars

(***************************************************************************)
(* SpecProgress: concurrent callers of one progress wrapper.               *)
(***************************************************************************)

InitProgress ==
    /\ InitProc("exit", NoCommand)
    /\ InitConfigured
    /\ InitStore(<<>>, NoArgs)
    /\ InitList(<<<<>>>>)
    /\ InitLocal({}, <<>>)
    /\ wrapper \in [kind : {"progressWriter", "progressReader"}, total : {0, 4}]
    /\ transferred = 0
    /\ mu = ""
    /\ caller = [c \in Callers |-> IdleCaller]
    /\ innerSum = 0
    /\ cleanSum = 0

NextProgress ==
    \E c \in Callers :
       \/ InnerCall(c)
       \/ Lock(c)
       \/ AddLoad(c)
       \/ AddStore(c)
       \/ Unlock(c)
       \/ Report(c)

SpecProgress == InitProgress /\ [][NextProgress]_vars

(***************************************************************************)
(* SpecList: ListObjects on every sequence of listing pages.               *)
(***************************************************************************)

\* Pages of a listing, and objects on a page, at most.
MaxPages == 3
MaxPageLen == 1

\* Sequences over S of length lo..hi.
SeqsOf(S, lo, hi) == UNION {[1..n -> S] : n \in lo..hi}

ListedObjects == {[Key |-> K1, Size |-> <<1>>], [Key |-> K2, Size |-> <<>>]}

InitListing ==
    /\ InitProc("ListObjects", Args("list", "ok", NotGiven, <<>>, <<>>, <<>>, <<>>, NoExpiry))
    /\ InitConfigured
    /\ InitStore(<<>>, [NoArgs EXCEPT !.bucket = FullFile.DefaultBucket])
    /\ \E pgs \in SeqsOf(SeqsOf(ListedObjects, 0, MaxPageLen), 1, MaxPages) :
          InitList(pgs)
    /\ InitLocal({}, <<>>)
    /\ InitNoCallers

NextList ==
    \/ ListObjects
    \/ ListObjectsNextPage
    \/ ListObjectsReturn
    \/ handleListCommandReturn
    \/ mainReturn

SpecList == InitListing /\ [][NextList]_vars

(***************************************************************************)
(* SpecRename: RenameObject on every bucket and every pair of keys.        *)
(***************************************************************************)

RenameKeys == {K1, K2, K3}

InitRename ==
    /\ InitProc("RenameObject", Args("rename", "ok", NotGiven, <<>>, K1, <<>>, K2, NoExpiry))
    /\ InitConfigured
    /\ \E s \in Stores(RenameKeys), old \in RenameKeys, new \in RenameKeys :
          InitStore(s, [NoArgs EXCEPT !.bucket = FullFile.DefaultBucket,
                                      !.oldKey = old, !.newKey = new])
    /\ InitList(<<<<>>>>)
    /\ InitLocal({}, <<>>)
    /\ InitNoCallers

NextRename ==
    \/ RenameObjectCopy
    \/ DeleteObject
    \/ RenameObjectReturn
    \/ handleRenameCommandReturn
    \/ mainReturn

SpecRename == InitRename /\ [][NextRename]_vars

(***************************************************************************)
(* SpecPath: handleDownloadCommand on every key and every -o.              *)
(***************************************************************************)

\* The longest object key and the longest -o value.
MaxKeyLen == 3
MaxOutLen == 2

PathKeys == SeqsOf({"a", "/", "."}, 0, MaxKeyLen)
PathOuts == SeqsOf({"o", "/", "."}, 0, MaxOutLen)

InitPath ==
    /\ \E k \in PathKeys, o \in PathOuts :
          /\ InitProc("handleDownloadCommand",
                      Args("download", "ok", NotGiven, k, o, <<>>, <<>>, NoExpiry))
          /\ \E d \in LocalDirs(argv) : InitLocal(d, <<>>)
    /\ InitConfigured
    /\ InitStore(<<>>, NoArgs)
    /\ InitList(<<<<>>>>)
    /\ InitNoCallers

NextPath == handleDownloadCommand

SpecPath == InitPath /\ [][NextPath]_vars

(***************************************************************************)
(* Properties of RenameObject, under SpecRename.                           *)
(***************************************************************************)

\* RenameObject has returned to its caller.
RenameReturned == pc \in {"handleRenameCommand_ret", "main_ret", "exit"}

\* The copy request of RenameObject was answered, with success or failure.
CopyAnswered(ok) == Len(calls) >= 1 /\ calls[1].op = "CopyObject" /\ calls[1].ok = ok
\* The delete request of RenameObject was answered, with success or failure.
DeleteAnswered(ok) == Len(calls) >= 2 /\ calls[2].op = "DeleteObject" /\ calls[2].ok = ok

\* C1: if RenameObject returns success, the store afterwards holds no object
\* under old and holds under new an object with the content (and so the size)
\* the object under old had before the call.
C1_RenameMovesObject ==
    (RenameReturned /\ opErr = "") =>
        /\ opArgs.oldKey \notin DOMAIN store
        /\ opArgs.newKey \in DOMAIN store
        /\ opArgs.oldKey \in DOMAIN store0
        /\ store[opArgs.newKey] = store0[opArgs.oldKey]
        /\ Len(store[opArgs.newKey]) = Len(store0[opArgs.oldKey])

\* The same statement for two different keys: this the code does satisfy.
RenameMovesObjectDistinctKeys == opArgs.oldKey # opArgs.newKey => C1_RenameMovesObject

\* A rename of a key to itself that reported success: the object is gone.
RenameToItselfSucceeded ==
    /\ RenameReturned /\ opErr = ""
    /\ opArgs.oldKey = opArgs.newKey
    /\ opArgs.oldKey \in DOMAIN store0
    /\ opArgs.oldKey \notin DOMAIN store

\* C2: when the copy succeeds and the delete fails, RenameObject returns the
\* "copy successful but failed to delete original" error, not the copy error;
\* the store holds old and new, both with the content old had; the copy is not
\* rolled back: the copy and the delete are the only requests sent.
C2_DeleteFailureKeepsBoth ==
    (RenameReturned /\ CopyAnswered(TRUE) /\ DeleteAnswered(FALSE)) =>
        /\ opErr = "copy successful but failed to delete original object"
        /\ opErr # "failed to copy object"
        /\ opArgs.oldKey \in DOMAIN store
        /\ opArgs.newKey \in DOMAIN store
        /\ store[opArgs.oldKey] = store0[opArgs.oldKey]
        /\ store[opArgs.newKey] = store0[opArgs.oldKey]
        /\ Len(calls) = 2
        /\ \A k \in DOMAIN store0 \ {opArgs.newKey} :
              k \in DOMAIN store /\ store[k] = store0[k]

C2_Witness ==
    /\ RenameReturned /\ CopyAnswered(TRUE) /\ DeleteAnswered(FALSE)
    /\ opArgs.oldKey # opArgs.newKey
    /\ opArgs.newKey \notin DOMAIN store0
    /\ pc = "exit" /\ exitStatus = 1

\* C3: when the copy fails, RenameObject returns an error, no delete is ever
\* issued, and the store holds exactly the objects and contents it held before.
C3_CopyFailureChangesNothing ==
    CopyAnswered(FALSE) =>
        /\ RenameReturned
        /\ opErr # ""
        /\ Len(calls) = 1
        /\ \A i \in 1..Len(calls) : calls[i].op # "DeleteObject"
        /\ store = store0

C3_Witness ==
    /\ CopyAnswered(FALSE)
    /\ opArgs.oldKey \in DOMAIN store0
    /\ opArgs.oldKey # opArgs.newKey
    /\ pc = "exit" /\ exitStatus = 1

(***************************************************************************)
(* Properties of LoadConfig, under SpecConfig.                             *)
(***************************************************************************)

\* LoadConfig has returned.
ConfigLoaded == pc # "LoadConfig"

\* The environment variable of field f is set and non-empty.
EnvProvides(f) == cfgEnv[f].set /\ cfgEnv[f].val # ""

\* The value of field f after the merge of file and environment.
MergedValue(f) == IF EnvProvides(f) THEN cfgEnv[f].val ELSE cfgFile[f]

\* C4: when LoadConfig succeeds, each of the four fields equals the
\* environment value if the environment variable is set and non-empty, and the
\* file value otherwise; the environment wins over a non-empty file value.
C4_EnvironmentWins ==
    (ConfigLoaded /\ cfgErr = "") =>
        /\ cfg # Null
        /\ \A f \in Fields :
              /\ EnvProvides(f) => cfg[f] = cfgEnv[f].val
              /\ ~EnvProvides(f) => cfg[f] = cfgFile[f]

\* A successful load where the environment overrode a value the file gave,
\* and a variable that is set but empty left the file's value in place.
C4_Witness ==
    /\ ConfigLoaded /\ cfgErr = "" /\ cfg # Null
    /\ cfgFile["AccountID"] = "f" /\ cfgEnv["AccountID"].val = "e"
    /\ cfg["AccountID"] = "e"
    /\ cfgEnv["DefaultBucket"].set /\ cfgEnv["DefaultBucket"].val = ""
    /\ cfg["DefaultBucket"] = "f"

\* The configuration file exists but cannot be read or parsed.
FileExistsButUnusable == cfgFs \in {"noaccess", "unreadable", "malformed"}

\* C5 as claimed: LoadConfig returns an error if and only if the file exists
\* but cannot be read or parsed, or a field is empty after the merge; an absent
\* file is by itself no error; a returned configuration has no empty field.
C5_ErrorIffAsClaimed ==
    ConfigLoaded =>
        /\ cfgErr # "" <=> (FileExistsButUnusable \/ \E f \in Fields : MergedValue(f) = "")
        /\ cfgErr = "" => (cfg # Null /\ \A f \in Fields : cfg[f] # "")

\* C5, amended: LoadConfig returns an error if and only if os.Stat succeeds on
\* the file and the file then cannot be read or parsed, or a field is empty
\* after the merge.  A file os.Stat fails on, absent or not, is skipped and is
\* by itself no error.  A returned configuration has no empty field.
C5_ErrorIff ==
    ConfigLoaded =>
        /\ cfgErr # "" <=> \/ cfgFs \in {"unreadable", "malformed"}
                           \/ \E f \in Fields : MergedValue(f) = ""
        /\ cfgFs \in {"absent", "noaccess"} =>
              (cfgErr # "" <=> \E f \in Fields : ~EnvProvides(f))
        /\ cfgErr = "" <=> (cfg # Null /\ \A f \in Fields : cfg[f] # "")
        /\ cfgErr # "" <=> cfg = Null

\* A file that exists but cannot be examined, and a complete environment:
\* LoadConfig succeeds.
C5_Witness ==
    /\ ConfigLoaded
    /\ cfgFs = "noaccess"
    /\ cfgErr = ""
    /\ \A f \in Fields : cfg[f] = "e"

(***************************************************************************)
(* Properties of ListObjects, under SpecList.                              *)
(***************************************************************************)

\* ListObjects has returned to handleListCommand.
ListReturned == pc \in {"handleListCommand_ret", "main_ret", "exit"}

\* Some page fetch failed.
FetchFailed == \E i \in 1..Len(calls) : ~calls[i].ok

\* The objects of all pages, in page order.
RECURSIVE Flatten(_)
Flatten(pgs) == IF pgs = <<>> THEN <<>> ELSE Head(pgs) \o Flatten(Tail(pgs))

\* The object lines printed.
PrintedObjects == SelectSeq(out, LAMBDA l : l.fd = "stdout" /\ l.msg = "object")

\* C6: ListObjects returns either success with exactly the objects of all
\* pages in page order (nothing, and no error, for an empty bucket), or, when a
\* page fetch fails, an error and no objects at all, whatever it had gathered;
\* never a partial list.  The first failing fetch is the last fetch, and the
\* handler prints the objects returned and exits 1 on the error.
C6_ListAllOrNothing ==
    /\ \A i \in 1..(Len(calls) - 1) : calls[i].ok
    /\ ListReturned =>
          IF FetchFailed
          THEN /\ opErr # ""
               /\ listResult = <<>>
               /\ pc = "exit" => (exitStatus = 1 /\ PrintedObjects = <<>>)
          ELSE /\ opErr = ""
               /\ listResult = Flatten(pages)
               /\ Len(calls) = Len(pages)
               /\ pc = "exit" => /\ exitStatus = 0
                                 /\ Len(PrintedObjects) = Len(Flatten(pages))
                                 /\ Flatten(pages) = <<>> =>
                                       out = <<Stdout("No objects found in the bucket.")>>

\* The third page fetch failed after two pages had given objects.
C6_Witness ==
    /\ pc = "exit"
    /\ FetchFailed
    /\ Len(calls) = 3
    /\ Len(allObjects) = 2
    /\ listResult = <<>>

(***************************************************************************)
(* Properties of main and the handlers, under Spec.                        *)
(***************************************************************************)

\* No command was given, or one that is none of the six.
UnknownOrNoCommand == ~argv.hasCmd \/ argv.cmd \notin Commands

\* C7 as claimed: with no command or an unknown one, whatever the
\* configuration, the program prints the usage and exits 1 without a store
\* operation.
C7_UsageAsClaimed ==
    (pc = "exit" /\ UnknownOrNoCommand) =>
        /\ out = printUsage
        /\ exitStatus = 1
        /\ calls = <<>>

\* The one line utils.ExitWithError prints.
ErrorLine(msg) == <<Line("stderr", TRUE, msg, <<>>)>>

\* C7, amended: with no command the program prints the usage and exits 1,
\* whatever the configuration, without loading it.  With a command that is
\* none of the six it first loads the configuration and builds the client: if
\* either fails it prints that error to standard error instead of the usage;
\* otherwise it prints the usage.  In each case the exit status is 1, no
\* handler runs and no store operation is issued.
C7_Usage ==
    UnknownOrNoCommand =>
        /\ calls = <<>>
        /\ store = store0
        /\ pc \in {"main", "LoadConfig", "main_cfg", "NewR2Client", "main_client", "exit"}
        /\ ~argv.hasCmd => (pc \in {"main", "exit"} /\ cfg = Null /\ cfgErr = "")
        /\ pc = "exit" =>
              /\ exitStatus = 1
              /\ out = IF ~argv.hasCmd THEN printUsage
                       ELSE IF cfgErr # "" THEN ErrorLine("Configuration error")
                       ELSE IF clientErr # "" THEN ErrorLine("Failed to create R2 client")
                       ELSE printUsage

\* An unknown command and no configuration: the configuration error is
\* printed, not the usage.
C7_Witness ==
    /\ pc = "exit"
    /\ argv.hasCmd /\ argv.cmd = "bogus"
    /\ cfgErr # ""
    /\ out = ErrorLine("Configuration error")
    /\ exitStatus = 1

\* main has entered the handler of the command.
HandlerReached ==
    /\ argv.hasCmd /\ argv.cmd \in Commands
    /\ client # Null
    /\ pc # "main_client"

\* The bucket name after defaulting to the configuration's DefaultBucket.
EffectiveBucket == IF argv.b.given THEN argv.b.val ELSE cfg.DefaultBucket

\* A value the command requires is missing.
MissingRequired ==
    \/ EffectiveBucket = ""
    \/ argv.cmd \in {"download", "delete", "presign"} /\ argv.k = <<>>
    \/ argv.cmd = "upload" /\ (argv.f = <<>> \/ argv.k = <<>>)
    \/ argv.cmd = "rename" /\ (argv.o = <<>> \/ argv.n = <<>>)

\* C8: in each of the six handlers, when a required value is missing the
\* handler prints one error to standard error behind the marker glyph and exits
\* with status 1 before the transfer operation is invoked: no store call, no
\* change of the bucket, no local file written.
C8_MissingValueExits ==
    (HandlerReached /\ argv.parse = "ok" /\ MissingRequired) =>
        /\ pc \in {HandlerOf(argv.cmd), "exit"}
        /\ calls = <<>>
        /\ store = store0
        /\ files = files0
        /\ pc = "exit" =>
              /\ exitStatus = 1
              /\ Len(out) = 1
              /\ out[1].fd = "stderr" /\ out[1].marked

\* rename with -o given and -n missing has exited.
C8_Witness ==
    /\ HandlerReached /\ argv.parse = "ok"
    /\ argv.cmd = "rename" /\ argv.o # <<>> /\ argv.n = <<>>
    /\ EffectiveBucket # ""
    /\ pc = "exit" /\ exitStatus = 1
    /\ out = ErrorLine("New object key not specified")

(***************************************************************************)
(* Properties of the download destination, under SpecPath.                 *)
(***************************************************************************)

\* handleDownloadCommand has resolved the destination and calls DownloadObject.
PathResolved == pc = "DownloadObject"

\* r is key with every "/" replaced by "_".
IsUnderscored(r, key) ==
    /\ Len(r) = Len(key)
    /\ \A i \in 1..Len(key) : r[i] = IF key[i] = "/" THEN "_" ELSE key[i]

\* b is the base filename of key: its last element, trailing slashes aside;
\* "/" for a key of slashes only.
IsBaseName(b, key) ==
    \/ /\ \A i \in 1..Len(key) : key[i] = "/"
       /\ b = Slash
    \/ \E i \in 1..Len(key), j \in 1..Len(key) :
          /\ i <= j
          /\ b = SubSeq(key, i, j)
          /\ \A k \in i..j : key[k] # "/"
          /\ i = 1 \/ key[i - 1] = "/"
          /\ \A k \in (j + 1)..Len(key) : key[k] = "/"

\* Paths p and q name the same file: they clean to the same path.
SamePath(p, q) == Clean(p) = Clean(q)

\* C9: the download destination is: with -o omitted, the file in the current
\* directory named by the key with every "/" replaced by "_"; with -o an
\* existing directory, that directory joined with the base filename of the
\* key; in every other case the -o value verbatim.
C9_OutputPath ==
    PathResolved =>
        /\ opArgs.path = finalOutputPath
        /\ IF argv.o = <<>>
           THEN /\ IsUnderscored(finalOutputPath, argv.k)
                /\ SamePath(finalOutputPath, Dot \o Slash \o finalOutputPath)
           ELSE IF argv.o \in dirs
           THEN \E i \in 0..Len(argv.k), j \in 0..Len(argv.k) :
                   LET b == IF i = 0 THEN Slash ELSE SubSeq(argv.k, i, j)
                   IN /\ IsBaseName(b, argv.k)
                      /\ finalOutputPath = Clean(argv.o \o Slash \o b)
           ELSE finalOutputPath = argv.o

\* download -k a/a with no -o: the destination is a_a .
C9_Witness ==
    /\ PathResolved
    /\ argv.o = <<>>
    /\ argv.k = <<"a", "/", "a">>
    /\ finalOutputPath = <<"a", "_", "a">>

(***************************************************************************)
(* Properties of the progress wrappers, under SpecProgress.                *)
(***************************************************************************)

RECURSIVE SumOver(_, _)
SumOver(S, f) ==
    IF S = {} THEN 0
    ELSE LET x == CHOOSE y \in S : TRUE IN f[x] + SumOver(S \ {x}, f)

\* The bytes of calls that passed the inner stream without error and have not
\* yet added them to the counter.
PendingSum ==
    SumOver(Callers, [c \in Callers |->
                         IF caller[c].pc \in {"lock", "load", "store"}
                         THEN caller[c].n ELSE 0])

\* Every call has returned.
AllReturned == \A c \in Callers : caller[c].pc = "call" /\ caller[c].calls = MaxCalls

\* C10 as claimed: no increment is lost, and after all calls return the
\* counter equals the sum of the byte counts n the inner stream returned over
\* all calls.
C10_CounterAsClaimed ==
    /\ transferred + PendingSum = cleanSum
    /\ AllReturned => transferred = innerSum

\* C10, amended: in every interleaving of concurrent callers the counter never
\* decreases, no increment is lost, and after all calls return it equals the
\* sum of the byte counts n over the calls whose inner stream returned no
\* error; the n of a call that returned an error is not counted.
C10_Counter ==
    /\ [][transferred' >= transferred]_vars
    /\ [](transferred + PendingSum = cleanSum)
    /\ [](AllReturned => transferred = cleanSum)

\* Two concurrent calls have returned: one counted its bytes, the other
\* returned bytes with an error, which were not counted.
C10_Witness ==
    /\ AllReturned
    /\ transferred = 2
    /\ cleanSum = 2
    /\ innerSum = 4

(***************************************************************************)
(* Properties of DownloadObject, under Spec.                               *)
(***************************************************************************)

\* DownloadObject has returned to handleDownloadCommand.
DownloadReturned ==
    /\ argv.hasCmd /\ argv.cmd = "download"
    /\ pc \in {"handleDownloadCommand_ret", "main_ret", "exit"}
    /\ calls # <<>>

\* DownloadObject failed while copying the body to the file.
CopyFailed == DownloadReturned /\ opErr = "failed to write object content to file"

\* p is a prefix of s, s itself included.
IsPrefix(p, s) == Len(p) <= Len(s) /\ p = SubSeq(s, 1, Len(p))

\* C11: when DownloadObject fails while copying the body, it returns an error
\* and the destination file stays in place holding what was written, a prefix
\* of the object (all of it when the error came after the last byte), the
\* bytes counted among them: it is neither deleted nor given back its earlier
\* content, and the process exits 1.  A failure before the file is created
\* leaves the local files as they were.
C11_PartialFileKept ==
    /\ CopyFailed =>
          LET dest == FileOf(finalOutputPath) IN
          /\ dest \in DOMAIN files
          /\ IsPrefix(files[dest], store0[argv.k])
          /\ xfer.transferred <= Len(files[dest])
          /\ DOMAIN files = DOMAIN files0 \cup {dest}
          /\ pc # "main_ret"
          /\ pc = "exit" => (exitStatus = 1 /\ out[Len(out)].fd = "stderr")
    /\ (DownloadReturned /\ opErr # "" /\ ~CopyFailed) => files = files0

\* The copy failed after one of two bytes; the destination, which held two
\* bytes before, holds the first byte of the object.
C11_Witness ==
    /\ CopyFailed
    /\ pc = "exit"
    /\ store0[argv.k] = ContentB
    /\ FileOf(finalOutputPath) \in DOMAIN files0
    /\ files0[FileOf(finalOutputPath)] = ContentB
    /\ files[FileOf(finalOutputPath)] = <<"y">>

(***************************************************************************)
(* The order of the steps of one invocation, under Spec.                   *)
(***************************************************************************)

\* config.LoadConfig has been called and has returned.
ConfigLoadDone == cfg # Null \/ cfgErr # ""

\* r2.NewR2Client has been called and has returned.
ClientBuildDone == client # Null \/ clientErr # ""

\* A handler has called its transfer operation.
OperationInvoked == opArgs # NoArgs

\* The subcommand is one of the six and its flags parse.
ParsedSuccessfully == argv.hasCmd /\ argv.cmd \in Commands /\ argv.parse = "ok"

\* The positions of main before the switch.
MainPcs == {"main", "LoadConfig", "main_cfg", "NewR2Client", "main_client"}

\* C12 as claimed: the subcommand and its flags are parsed, then the
\* configuration is loaded, then the client is built, then the operation is
\* invoked, each step only after the one before it completed successfully.
C12_OrderAsClaimed ==
    /\ ConfigLoadDone => ParsedSuccessfully
    /\ ClientBuildDone => (cfg # Null /\ cfgErr = "")
    /\ OperationInvoked => (client # Null /\ clientErr = "")

\* C12, amended: main only tests that a subcommand is present, then loads the
\* configuration, then builds the client, and only then selects the handler,
\* which parses the flags and checks the required values before it invokes the
\* transfer operation.  No step starts before the one before it completed
\* successfully; the flags, and whether the subcommand is known, are examined
\* after the configuration and the client, so a configuration or client error
\* is reported, with status 1, ahead of any flag error.
C12_Order ==
    /\ (ConfigLoadDone \/ pc \in MainPcs \ {"main"}) => argv.hasCmd
    /\ (ClientBuildDone \/ pc \in {"NewR2Client", "main_client"}) =>
          (cfg # Null /\ cfgErr = "")
    /\ pc \notin MainPcs \cup {"exit"} =>
          /\ client # Null /\ clientErr = ""
          /\ argv.cmd \in Commands
    /\ OperationInvoked =>
          /\ client # Null /\ clientErr = ""
          /\ ParsedSuccessfully
          /\ ~MissingRequired
          /\ opArgs.bucket = EffectiveBucket
    /\ calls # <<>> => OperationInvoked
    /\ (pc = "exit" /\ argv.hasCmd /\ argv.cmd \in Commands /\ argv.parse # "ok") =>
          IF cfgErr # "" THEN out = ErrorLine("Configuration error") /\ exitStatus = 1
          ELSE IF clientErr # ""
          THEN out = ErrorLine("Failed to create R2 client") /\ exitStatus = 1
          ELSE exitStatus = IF argv.parse = "help" THEN 0 ELSE 2

\* Flags that do not parse and no configuration: the configuration was loaded
\* first and its error is the one reported.
C12_Witness ==
    /\ pc = "exit"
    /\ argv.hasCmd /\ argv.cmd = "download" /\ argv.parse = "bad"
    /\ cfgErr # ""
    /\ ~ClientBuildDone
    /\ exitStatus = 1

(***************************************************************************)
(* The store calls of one invocation, under Spec.                          *)
(***************************************************************************)

\* Some store call failed.
FailedCall == \E i \in 1..Len(calls) : ~calls[i].ok

\* The store calls a command makes when none fails, in order.
PlanOf(cmd) ==
    CASE cmd = "list" -> [i \in 1..Len(pages) |-> "ListObjectsV2"]
      [] cmd = "download" -> <<"GetObject">>
      [] cmd = "upload" -> <<"PutObject">>
      [] cmd = "delete" -> <<"DeleteObject">>
      [] cmd = "rename" -> <<"CopyObject", "DeleteObject">>
      [] cmd = "presign" -> <<"PresignGetObject">>
      [] OTHER -> <<>>

\* The lines that report a result.
SuccessMessages ==
    {"Successfully downloaded", "Successfully uploaded", "Successfully deleted",
     "Successfully renamed", "Presigned URL", "object",
     "No objects found in the bucket."}

\* The positions on the way back from a failed operation to the exit.
ReturnPcs ==
    {"handleListCommand_ret", "handleDownloadCommand_ret", "handleUploadCommand_ret",
     "handleDeleteCommand_ret", "RenameObject_del", "handleRenameCommand_ret",
     "handlePresignCommand_ret", "exit"}

\* C13: there are no retries.  The store calls of an invocation are a prefix
\* of the command's plan, each step called at most once; a failed call is the
\* last call; after it the operation returns its error, no success message is
\* printed, and the process exits with status 1 behind the error line.
C13_NoRetries ==
    /\ Len(calls) <= Len(PlanOf(argv.cmd))
    /\ \A i \in 1..Len(calls) : calls[i].op = PlanOf(argv.cmd)[i]
    /\ \A i \in 1..(Len(calls) - 1) : calls[i].ok
    /\ FailedCall =>
          /\ opErr # ""
          /\ pc \in ReturnPcs
          /\ \A i \in 1..Len(out) : out[i].msg \notin SuccessMessages
          /\ pc = "exit" =>
                /\ exitStatus = 1
                /\ out[Len(out)].fd = "stderr" /\ out[Len(out)].marked

\* rename: the copy succeeded, the delete failed, and the process has exited
\* after two calls.
C13_Witness ==
    /\ pc = "exit"
    /\ argv.cmd = "rename"
    /\ Len(calls) = 2
    /\ calls[1].ok /\ ~calls[2].ok
    /\ exitStatus = 1

(***************************************************************************)
(* No data loss on rename, under SpecRename.                               *)
(***************************************************************************)

\* The bucket holds under key k the content c.
Retrievable(k, c) == k \in DOMAIN store /\ store[k] = c

\* C14: for every bucket and every pair of keys, old = new and an occupied
\* new included, after RenameObject returns, with success or with an error,
\* the content that was stored under old before the call is retrievable under
\* old or under new.
C14_NoDataLoss ==
    (RenameReturned /\ opArgs.oldKey \in DOMAIN store0) =>
        \/ Retrievable(opArgs.oldKey, store0[opArgs.oldKey])
        \/ Retrievable(opArgs.newKey, store0[opArgs.oldKey])

\* The same statement for two different keys: this the code does satisfy,
\* whether or not new named an object before.
NoDataLossDistinctKeys == opArgs.oldKey # opArgs.newKey => C14_NoDataLoss

\* A rename onto an occupied key has returned: the content of old is under new.
RenameOntoOccupiedKey ==
    /\ RenameReturned /\ opErr = ""
    /\ opArgs.oldKey # opArgs.newKey
    /\ opArgs.newKey \in DOMAIN store0
    /\ store0[opArgs.newKey] # store0[opArgs.oldKey]
    /\ Retrievable(opArgs.newKey, store0[opArgs.oldKey])

====
